---- MODULE Spec2Model ----
(***************************************************************************)
(* Model of app.py, the Streamlit "ATS Resume Matcher".                    *)
(*                                                                         *)
(* A Python str is a sequence of one-character strings; "\n" is the line   *)
(* break.  Every script run (Streamlit executes app.py top to bottom on    *)
(* each interaction) is one action.  st.session_state is the variables     *)
(* processed, result, resume_filename and last_jd; what a run put on the   *)
(* page and which helpers it called is recorded in ui and calls.  A run is  *)
(* taken to its end (st.stop(), an uncaught exception, or the last line);  *)
(* Streamlit cutting a run short for a newer one is not modelled.          *)
(***************************************************************************)
EXTENDS Integers, Sequences, FiniteSets

VARIABLES
    env,              \* outcome of lines 15 and 75-84 for this process
    ss_ready,         \* line 86-87 has run: the session_state keys exist
    processed,        \* st.session_state.processed
    result,           \* st.session_state.result
    resume_filename,  \* st.session_state.resume_filename
    last_jd,          \* st.session_state.last_jd
    resume_file,      \* value of the file_uploader widget in the latest run
    jd_text_input,    \* value of the text_area widget in the latest run
    calls,            \* helpers the latest run called
    ui,               \* what the latest run rendered
    hist              \* history of the session (for the properties only)

vars == <<env, ss_ready, processed, result, resume_filename, last_jd,
          resume_file, jd_text_input, calls, ui, hist>>

-----------------------------------------------------------------------------
(* Bounds of the model *)

\* longest analysis text, in lines, that ParseSpec enumerates
MaxLines == 4

-----------------------------------------------------------------------------
(* Python str operations, on sequences of characters *)

NL == "\n"

UpperChars == <<"A","B","C","D","E","F","G","H","I","J","K","L","M",
                "N","O","P","Q","R","S","T","U","V","W","X","Y","Z">>
LowerChars == <<"a","b","c","d","e","f","g","h","i","j","k","l","m",
                "n","o","p","q","r","s","t","u","v","w","x","y","z">>

\* str.lower() / re.IGNORECASE folding of one character
LowerChar(c) ==
    IF \E i \in 1..26 : UpperChars[i] = c
    THEN LowerChars[CHOOSE i \in 1..26 : UpperChars[i] = c]
    ELSE c

\* str.lower()
Lower(s) == [i \in 1..Len(s) |-> LowerChar(s[i])]

\* characters str.strip() removes and the regex class \s matches
IsSpace(c) == c \in {" ", "\n", "\t", "\r"}

\* the regex class \d
DigitChars == <<"0","1","2","3","4","5","6","7","8","9">>
IsDigit(c) == \E i \in 1..10 : DigitChars[i] = c
DigitValue(c) == (CHOOSE i \in 1..10 : DigitChars[i] = c) - 1

\* str.strip()
Strip(s) ==
    LET keep == {i \in 1..Len(s) : ~IsSpace(s[i])}
    IN  IF keep = {} THEN <<>>
        ELSE LET lo == CHOOSE i \in keep : \A j \in keep : i <= j
                 hi == CHOOSE i \in keep : \A j \in keep : j <= i
             IN  SubSeq(s, lo, hi)

\* s[p:].startswith(pre), p counted from 1
StartsWithAt(s, p, pre) ==
    /\ p + Len(pre) - 1 <= Len(s)
    /\ \A k \in 1..Len(pre) : s[p + k - 1] = pre[k]

\* the same under re.IGNORECASE
StartsWithAtCI(s, p, pre) ==
    /\ p + Len(pre) - 1 <= Len(s)
    /\ \A k \in 1..Len(pre) : LowerChar(s[p + k - 1]) = LowerChar(pre[k])

\* str.startswith / str.endswith
StartsWith(s, pre) == StartsWithAt(s, 1, pre)
EndsWith(s, suf) == Len(suf) <= Len(s) /\ StartsWithAt(s, Len(s) - Len(suf) + 1, suf)

\* str.replace("\n", "<br>")
RECURSIVE ReplaceNewlines(_)
ReplaceNewlines(s) ==
    IF s = <<>> THEN <<>>
    ELSE (IF Head(s) = NL THEN <<"<","b","r",">">> ELSE <<Head(s)>>)
         \o ReplaceNewlines(Tail(s))

\* int() of a string of decimal digits
RECURSIVE ParseInt(_)
ParseInt(ds) ==
    IF ds = <<>> THEN 0
    ELSE ParseInt(SubSeq(ds, 1, Len(ds) - 1)) * 10 + DigitValue(ds[Len(ds)])

\* "\n".join(lines)
RECURSIVE JoinLines(_)
JoinLines(lines) ==
    IF lines = <<>> THEN <<>>
    ELSE IF Len(lines) = 1 THEN lines[1]
    ELSE lines[1] \o <<NL>> \o JoinLines(Tail(lines))

\* position of the first "\n" at or after p, or 0
NextNewline(s, p) ==
    LET at == {i \in p..Len(s) : s[i] = NL}
    IN  IF at = {} THEN 0 ELSE CHOOSE i \in at : \A j \in at : i <= j

-----------------------------------------------------------------------------
(* Program constants *)

\* sections_to_extract, line 154
ContactInfo == <<"C","o","n","t","a","c","t"," ","I","n","f","o">>
Skills == <<"S","k","i","l","l","s">>
Experience == <<"E","x","p","e","r","i","e","n","c","e">>
Education == <<"E","d","u","c","a","t","i","o","n">>
Certifications == <<"C","e","r","t","i","f","i","c","a","t","i","o","n","s">>
Achievements == <<"A","c","h","i","e","v","e","m","e","n","t","s">>
Others == <<"O","t","h","e","r","s">>
sections_to_extract ==
    <<ContactInfo, Skills, Experience, Education, Certifications, Achievements, Others>>

\* all_delimiters, line 156
OverallMatchScore == <<"O","v","e","r","a","l","l"," ","M","a","t","c","h"," ","S","c","o","r","e">>
all_delimiters == sections_to_extract \o <<OverallMatchScore>>

\* the literal head of the score pattern, line 126
ScoreHead == OverallMatchScore \o <<":">>

\* the prefix of the string analyze_resume_with_gemini returns on failure, lines 67 and 123
ErrorPrefix == <<"E","r","r","o","r"," ","d","u","r","i","n","g"," ","G","e","m","i","n","i"," ","A","P","I"," ","c","a","l","l">>

\* the placeholder spellings, line 168
Placeholders == {<<"n","o","n","e">>, <<"n","o","t"," ","f","o","u","n","d">>, <<"n","/","a">>}

ItalicOpen == <<"<","i",">">>
ItalicClose == <<"<","/","i",">">>

PdfSuffix == <<".","p","d","f">>
DocxSuffix == <<".","d","o","c","x">>

-----------------------------------------------------------------------------
(* The two regular expressions *)

\* re.search(r"Overall Match Score:\s*(\d+)%?", text, re.IGNORECASE), line 126:
\* the leftmost position where the head matches, is followed by any white
\* space and then by at least one digit; group(1) is the whole run of digits.
ScoreDigitsAt(text, p) ==
    LET from == p + Len(ScoreHead)
        nonsp == {i \in from..Len(text) : ~IsSpace(text[i])}
        d0 == IF nonsp = {} THEN Len(text) + 1
              ELSE CHOOSE i \in nonsp : \A j \in nonsp : i <= j
        nondig == {i \in d0..Len(text) : ~IsDigit(text[i])}
        d1 == IF nondig = {} THEN Len(text) + 1
              ELSE CHOOSE i \in nondig : \A j \in nondig : i <= j
    IN  SubSeq(text, d0, d1 - 1)

ScoreSearch(text) ==
    LET hits == {p \in 1..Len(text) :
                    StartsWithAtCI(text, p, ScoreHead) /\ ScoreDigitsAt(text, p) # <<>>}
    IN  IF hits = {} THEN [found |-> FALSE, group1 |-> <<>>]
        ELSE [found |-> TRUE,
              group1 |-> ScoreDigitsAt(text, CHOOSE p \in hits : \A q \in hits : p <= q)]

\* "\n(?:d1|d2|...)[^\n]*\n" matches at q: a line break, a delimiter name, the
\* rest of that line and the line break that ends it
DelimiterLineAt(text, q) ==
    /\ q <= Len(text)
    /\ text[q] = NL
    /\ \E k \in 1..Len(all_delimiters) :
          /\ StartsWithAtCI(text, q + 1, all_delimiters[k])
          /\ NextNewline(text, q + 1 + Len(all_delimiters[k])) # 0

\* the lookahead "(?=\n(?:...)[^\n]*\n|\Z)" at q
Lookahead(text, q) == DelimiterLineAt(text, q) \/ q = Len(text) + 1

\* re.search(pattern, text, IGNORECASE | DOTALL | MULTILINE), lines 164-165:
\* "^name[^\n]*\n" is a line that starts with the name and is ended by a line
\* break; "(.*?)" is the shortest text after it at whose end the lookahead holds.
SectionSearch(text, section_name) ==
    LET heads == {p \in 1..Len(text) :
                     /\ p = 1 \/ text[p - 1] = NL
                     /\ StartsWithAtCI(text, p, section_name)
                     /\ NextNewline(text, p + Len(section_name)) # 0}
    IN  IF heads = {} THEN [found |-> FALSE, group1 |-> <<>>]
        ELSE LET p == CHOOSE x \in heads : \A y \in heads : x <= y
                 from == NextNewline(text, p + Len(section_name)) + 1
                 ends == {q \in from..(Len(text) + 1) : Lookahead(text, q)}
                 to == CHOOSE x \in ends : \A y \in ends : x <= y
             IN  [found |-> TRUE, group1 |-> SubSeq(text, from, to - 1)]

-----------------------------------------------------------------------------
(* Result display, lines 121-187 *)

\* is_placeholder, line 168
IsPlaceholder(content) == Lower(content) \in Placeholders

\* the body of the loop of lines 161-173 for sections i, i+1, ...; data is
\* extracted_data_for_display and seen is seen_content_blocks
RECURSIVE ExtractSections(_, _, _, _)
ExtractSections(text, i, data, seen) ==
    IF i > Len(sections_to_extract) THEN data
    ELSE LET section_name == sections_to_extract[i]
             match == SectionSearch(text, section_name)
             content == Strip(match.group1)
         IN  IF ~match.found THEN ExtractSections(text, i + 1, data, seen)
             ELSE IF content # <<>> /\ ~IsPlaceholder(content) /\ content \notin seen
             THEN ExtractSections(text, i + 1,
                      Append(data, [Section |-> section_name,
                                    Content |-> ReplaceNewlines(content)]),
                      seen \cup {content})
             ELSE IF content # <<>> /\ IsPlaceholder(content)
             THEN ExtractSections(text, i + 1,
                      Append(data, [Section |-> section_name,
                                    Content |-> ItalicOpen \o content \o ItalicClose]),
                      seen)
             ELSE ExtractSections(text, i + 1, data, seen)

\* is_empty_placeholder, line 178
IsEmptyPlaceholder(item) ==
    StartsWith(Lower(item.Content), ItalicOpen) /\ EndsWith(Lower(item.Content), ItalicClose)

\* the expanders of lines 177-180
Expanders(data) ==
    [k \in 1..Len(data) |->
        [Section |-> data[k].Section, Content |-> data[k].Content,
         expanded |-> ~IsEmptyPlaceholder(data[k])]]

\* is_api_error_string, line 123
IsApiErrorString(result_text) == StartsWith(result_text, ErrorPrefix)

\* truth of "if overall_score_value:", line 129: a non-empty str
ScoreValueTruthy(overall_score_value) == overall_score_value # <<>>

\* thresholds of the colour bands, line 132
ScoreGreen == 75
ScoreOrange == 50

\* the largest percentage st.progress takes, line 140
ProgressMax == 100

\* color, line 132
ScoreColor(score_int) ==
    IF score_int >= ScoreGreen THEN "green"
    ELSE IF score_int >= ScoreOrange THEN "orange" ELSE "red"

\* st.progress(score_int / 100.0), line 140: Streamlit accepts a float in
\* [0.0, 1.0] and raises StreamlitAPIException otherwise; nothing catches it
\* (line 142 catches ValueError only), so the run ends there
ProgressAccepts(score_int) == 0 <= score_int /\ score_int <= ProgressMax

NothingShown ==
    [errors |-> {}, warnings |-> {}, infos |-> {}, success |-> FALSE,
     score_searched |-> FALSE, score_shown |-> FALSE, score_int |-> -1,
     color |-> "", sections_parsed |-> FALSE, expanders |-> <<>>]

\* lines 121-187: what the run renders below the inputs, given the session
\* state at that point and the widgets' values
ResultDisplay(res, proc, file, jd) ==
    IF res # <<>> THEN
        IF IsApiErrorString(res) THEN NothingShown
        ELSE LET score_match == ScoreSearch(res)
                 overall_score_value == score_match.group1
                 shown == score_match.found /\ ScoreValueTruthy(overall_score_value)
                 score_int == IF shown THEN ParseInt(overall_score_value) ELSE -1
                 data == ExtractSections(res, 1, <<>>, {})
             IN  IF shown /\ ~ProgressAccepts(score_int)
                 THEN [NothingShown EXCEPT !.score_searched = TRUE,
                                           !.score_shown = TRUE,
                                           !.score_int = score_int,
                                           !.color = ScoreColor(score_int),
                                           !.errors = {"uncaught exception"}]
                 ELSE [errors |-> {},
                       warnings |-> (IF shown THEN {} ELSE {"score not found"})
                                    \cup (IF data = <<>> THEN {"no sections"} ELSE {}),
                       infos |-> {},
                       success |-> TRUE,
                       score_searched |-> TRUE,
                       score_shown |-> shown,
                       score_int |-> score_int,
                       color |-> IF shown THEN ScoreColor(score_int) ELSE "",
                       sections_parsed |-> TRUE,
                       expanders |-> Expanders(data)]
    ELSE IF proc THEN
        [NothingShown EXCEPT !.infos =
            IF ~file.present /\ Strip(jd) # <<>> THEN {"upload a resume"}
            ELSE IF file.present /\ Strip(jd) = <<>> THEN {"paste the job description"}
            ELSE {}]
    ELSE NothingShown

-----------------------------------------------------------------------------
(* Inputs of a run: the widgets' values and what the libraries answer *)

\* resume_file is None (present = FALSE) or an UploadedFile: a name, and doc,
\* which upload it is (two uploads may carry the same name)
NoFile == [present |-> FALSE, name |-> <<>>, doc |-> 0]
FileA == [present |-> TRUE, name |-> <<"a">> \o PdfSuffix, doc |-> 1]
FileA2 == [present |-> TRUE, name |-> <<"a">> \o PdfSuffix, doc |-> 2]
FileB == [present |-> TRUE, name |-> <<"b">> \o DocxSuffix, doc |-> 3]
Files == {NoFile, FileA, FileA2, FileB}

\* texts of the job-description text area: empty, blank, and two real ones
JdX == <<"x">>
JdY == <<"y">>
JobDescriptions == {<<>>, <<" ">>, JdX, JdY}

\* what pdfplumber / docx2txt do with the upload: raise, or the pages' texts
\* (pdf; an image-only page has no text) or the body text (docx)
ResumeBody == <<"c","v">>
NoLib == [raised |-> FALSE, pages |-> <<>>, body |-> <<>>]
ExtractOutcomes ==
    {[raised |-> TRUE, pages |-> <<>>, body |-> <<>>],
     [raised |-> FALSE, pages |-> <<<<>>>>, body |-> <<>>],
     [raised |-> FALSE, pages |-> <<ResumeBody, <<>>>>, body |-> ResumeBody]}

\* what model_instance.generate_content does: raise, or a response text
Line_Skills == Skills
Line_Others == Others
Line_Item == <<"-"," ","x">>
Line_None == <<"N","o","n","e">>
Line_Italic == ItalicOpen \o <<"x">> \o ItalicClose
Line_Blank == <<>>
Line_Score82 == ScoreHead \o <<" ","8","2","%">>
Line_Score0 == Lower(ScoreHead) \o <<" ","0","%">>
Line_Score150 == ScoreHead \o <<"1","5","0">>
Line_ScoreNA == ScoreHead \o <<" ","N","/","A">>

NoApi == [raised |-> FALSE, text |-> <<>>, message |-> <<>>]
ApiRaises == [raised |-> TRUE, text |-> <<>>, message |-> <<"4","2","9">>]
ApiAnswers(text) == [raised |-> FALSE, text |-> text, message |-> <<>>]
GeminiOutcomes ==
    {ApiRaises,
     ApiAnswers(JoinLines(<<Line_Skills, Line_Item, Line_Score82, Line_Blank>>)),
     ApiAnswers(JoinLines(<<Line_Skills, Line_None>>)),
     ApiAnswers(<<" ", NL>>)}

-----------------------------------------------------------------------------
(* Helper functions, lines 19-67 *)

\* extract_text_from_file, lines 19-29: the text, and whether st.error was called
extract_text_from_file(uploaded_file, lib) ==
    IF EndsWith(uploaded_file.name, PdfSuffix) THEN
        IF lib.raised THEN [text |-> <<>>, error |-> TRUE]
        ELSE [text |-> JoinLines(SelectSeq(lib.pages, LAMBDA t : t # <<>>)),
              error |-> FALSE]
    ELSE IF EndsWith(uploaded_file.name, DocxSuffix) THEN
        IF lib.raised THEN [text |-> <<>>, error |-> TRUE]
        ELSE [text |-> lib.body, error |-> FALSE]
    ELSE [text |-> <<>>, error |-> FALSE]

\* analyze_resume_with_gemini, lines 31-67: the returned str, and whether
\* st.error was called
analyze_resume_with_gemini(resume_text, jd_text, api) ==
    IF api.raised
    THEN [text |-> ErrorPrefix \o <<":", " ">> \o api.message, error |-> TRUE]
    ELSE [text |-> Strip(api.text), error |-> FALSE]

-----------------------------------------------------------------------------
(* The re-run gate, lines 97-118 *)

\* resume_changed, lines 97-98: current_resume_name is None without an upload
ResumeChanged(file, stored_name) ==
    file.present /\ file.name # <<>> /\ stored_name # file.name

\* jd_changed, line 99
JdChanged(stored_jd, jd) == stored_jd # jd

\* line 108 without its "not st.session_state.processed"
ShouldProcessIgnoringFlag(proc, file, jd) == file.present /\ Strip(jd) # <<>>

\* the condition of line 108
ShouldProcess(proc, file, jd) == ~proc /\ file.present /\ Strip(jd) # <<>>

\* lines 116-118 left out: the flag stays as it was
ProcessedLeftUnset(proc, file) == proc

\* st.session_state.processed after an extraction that gave no text, lines 116-118
ProcessedAfterNoText(proc, file) == IF file.present THEN TRUE ELSE proc

\* line 103 left out: the result survives the invalidation
ResultKeptAtGate(changed, res) == res

\* st.session_state.result after the invalidation of lines 101-103
ResultAfterGate(changed, res) == IF changed THEN <<>> ELSE res

\* st.session_state.processed after the invalidation of lines 101-102
ProcessedAfterGate(changed, proc) == IF changed THEN FALSE ELSE proc

NoCalls == [extract |-> FALSE, extracted |-> <<>>, analyze |-> FALSE,
            api_raised |-> FALSE, resume_text |-> <<>>, jd_text |-> <<>>,
            returned |-> <<>>]

NoPair == <<>>

\* One whole run of lines 86-187 from session state s with the widgets holding
\* file and jd, the libraries answering lib and api: the session state it
\* leaves, the calls it made and what it rendered.
Run(s, file, jd, lib, api) ==
    LET resume_changed == ResumeChanged(file, s.resume_filename)
        jd_changed == JdChanged(s.last_jd, jd)
        changed == resume_changed \/ jd_changed
        processed1 == ProcessedAfterGate(changed, s.processed)
        result1 == ResultAfterGate(changed, s.result)
        filename1 == IF changed /\ resume_changed THEN file.name ELSE s.resume_filename
        last_jd1 == IF changed THEN jd ELSE s.last_jd
        for1 == IF changed THEN NoPair ELSE s.result_for
        process == ShouldProcess(processed1, file, jd)
        ex == IF process THEN extract_text_from_file(file, lib)
              ELSE [text |-> <<>>, error |-> FALSE]
        analyze == process /\ ex.text # <<>>
        an == IF analyze THEN analyze_resume_with_gemini(ex.text, jd, api)
              ELSE [text |-> <<>>, error |-> FALSE]
        processed2 == IF analyze THEN TRUE
                      ELSE IF process THEN ProcessedAfterNoText(processed1, file)
                      ELSE processed1
        result2 == IF analyze THEN an.text ELSE result1
        shown == ResultDisplay(result2, processed2, file, jd)
    IN  [processed |-> processed2,
         result |-> result2,
         resume_filename |-> filename1,
         last_jd |-> last_jd1,
         calls |-> [extract |-> process,
                    extracted |-> ex.text,
                    analyze |-> analyze,
                    api_raised |-> analyze /\ api.raised,
                    resume_text |-> IF analyze THEN ex.text ELSE <<>>,
                    jd_text |-> IF analyze THEN jd ELSE <<>>,
                    returned |-> an.text],
         ui |-> [shown EXCEPT !.errors = @ \cup (IF ex.error THEN {"extraction"} ELSE {})
                                           \cup (IF an.error THEN {"gemini"} ELSE {})],
         result_for |-> IF analyze THEN <<file.name, jd>> ELSE for1,
         set_processed |-> process /\ processed2]

-----------------------------------------------------------------------------
(* The state machine *)

\* st.session_state as a record, with the history the properties read
Session ==
    [processed |-> processed, result |-> result,
     resume_filename |-> resume_filename, last_jd |-> last_jd,
     result_for |-> hist.result_for]

\* the defaults of lines 86-87
Defaults ==
    [processed |-> FALSE, result |-> <<>>, resume_filename |-> <<>>,
     last_jd |-> <<>>, result_for |-> NoPair]

\* hist.ever: the (file name, job description) pairs for which some run has set
\* processed to True (lines 115, 118); hist.result_for: the pair whose analysis
\* call returned the stored result; hist.processed_doc: the upload the latest
\* extraction read; hist.ran: some run has happened
NoHistory == [ever |-> {}, result_for |-> NoPair, processed_doc |-> 0, ran |-> FALSE]

HistoryAfter(h, file, jd, n) ==
    [ever |-> IF n.set_processed THEN h.ever \cup {<<file.name, jd>>} ELSE h.ever,
     result_for |-> n.result_for,
     processed_doc |-> IF n.calls.extract THEN file.doc ELSE h.processed_doc,
     ran |-> TRUE]

\* line 84 left out: only the missing key stops the run
HaltsOnlyWithoutKey(e) == e = "no key"

\* lines 15 and 75-84: the key is missing, or configuring the model raises
Envs == {"ok", "no key", "init raises"}
Halts(e) == e = "no key" \/ e = "init raises"

Init ==
    /\ env \in Envs
    /\ ss_ready = FALSE
    /\ processed = Defaults.processed
    /\ result = Defaults.result
    /\ resume_filename = Defaults.resume_filename
    /\ last_jd = Defaults.last_jd
    /\ resume_file = NoFile
    /\ jd_text_input = <<>>
    /\ calls = NoCalls
    /\ ui = NothingShown
    /\ hist = NoHistory

\* lines 74-84: without the key, or when the model cannot be built, the run
\* shows an error and st.stop() ends it before line 86
RunHalted ==
    /\ Halts(env)
    /\ ui' = [NothingShown EXCEPT !.errors = {"configuration"}]
    /\ calls' = NoCalls
    /\ hist' = [hist EXCEPT !.ran = TRUE]
    /\ UNCHANGED <<env, ss_ready, processed, result, resume_filename, last_jd,
                   resume_file, jd_text_input>>

\* the libraries are asked only on the path that calls them
LibChoices(s, file, jd) ==
    IF ShouldProcess(ProcessedAfterGate(ResumeChanged(file, s.resume_filename)
                                          \/ JdChanged(s.last_jd, jd), s.processed),
                     file, jd)
    THEN ExtractOutcomes ELSE {NoLib}
ApiChoices(s, file, jd, lib) ==
    IF LibChoices(s, file, jd) # {NoLib} /\ extract_text_from_file(file, lib).text # <<>>
    THEN GeminiOutcomes ELSE {NoApi}

\* lines 86-187 with the widgets holding file and jd
RunWith(file, jd) ==
    /\ \E lib \in LibChoices(Session, file, jd) :
         \E api \in ApiChoices(Session, file, jd, lib) :
           \E n \in {Run(Session, file, jd, lib, api)} :
               /\ ss_ready' = TRUE
               /\ processed' = n.processed
               /\ result' = n.result
               /\ resume_filename' = n.resume_filename
               /\ last_jd' = n.last_jd
               /\ resume_file' = file
               /\ jd_text_input' = jd
               /\ calls' = n.calls
               /\ ui' = n.ui
               /\ hist' = HistoryAfter(hist, file, jd, n)
    /\ UNCHANGED env

\* the run Streamlit starts when the user uploads, replaces or removes the
\* file or commits a new text in the text area (several changes may reach
\* one run)
RunOnInput ==
    /\ ~Halts(env)
    /\ \E file \in Files, jd \in JobDescriptions :
         /\ <<file, jd>> # <<resume_file, jd_text_input>>
         /\ RunWith(file, jd)

\* the run of the page load, and of a rerun with the widgets untouched
Rerun ==
    /\ ~Halts(env)
    /\ RunWith(resume_file, jd_text_input)

Next == RunHalted \/ RunOnInput \/ Rerun

Spec == Init /\ [][Next]_vars

-----------------------------------------------------------------------------
(* The display of every short analysis text *)

\* the lines an analysis text is made of here
LineAlphabet ==
    {Line_Skills, Line_Others, Line_Item, Line_None, Line_Italic, Line_Blank,
     Line_Score82, Line_Score0, Line_Score150, Line_ScoreNA}

ResponseTexts ==
    UNION {{JoinLines(ls) : ls \in [1..k -> LineAlphabet]} : k \in 1..MaxLines}

\* the states the first run of a session leaves when a.pdf is uploaded with job
\* description "x", the text is extracted and the service answers with a text
\* of at most MaxLines lines
ParseInit ==
    /\ env = "ok"
    /\ \E text \in ResponseTexts :
         \E n \in {Run(Defaults, FileA, JdX,
                       [raised |-> FALSE, pages |-> <<ResumeBody>>, body |-> ResumeBody],
                       ApiAnswers(text))} :
             /\ ss_ready = TRUE
             /\ processed = n.processed
             /\ result = n.result
             /\ resume_filename = n.resume_filename
             /\ last_jd = n.last_jd
             /\ resume_file = FileA
             /\ jd_text_input = JdX
             /\ calls = n.calls
             /\ ui = n.ui
             /\ hist = HistoryAfter(NoHistory, FileA, JdX, n)

ParseSpec == ParseInit /\ [][Rerun]_vars

-----------------------------------------------------------------------------
(* Properties *)

\* the file name the latest run saw, or the stored one when no file is uploaded
CurrentName == IF resume_file.present THEN resume_file.name ELSE resume_filename

\* the latest run found both inputs ready (line 108 without the flag)
InputsReady == resume_file.present /\ Strip(jd_text_input) # <<>>

\* the run made no call to extract_text_from_file or analyze_resume_with_gemini
NoCallsMade == ~calls.extract /\ ~calls.analyze

\* C1 as stated: once some run has set processed=True for the pair (file name,
\* job description), every later run whose file name and job description do
\* not differ from the stored resume_filename / last_jd makes no call to
\* extract_text_from_file or analyze_resume_with_gemini.
C1_Original ==
    [][(/\ <<CurrentName', jd_text_input'>> \in hist.ever
        /\ resume_file'.present => resume_file'.name = resume_filename
        /\ jd_text_input' = last_jd)
       => NoCallsMade']_vars

\* C1 amended: a run that starts with processed still True and whose file name
\* and job description do not differ from the stored resume_filename / last_jd
\* makes no call to extract_text_from_file or analyze_resume_with_gemini, also
\* when the stored result is the error string.
C1_NoCallWhileProcessed ==
    [][(/\ processed
        /\ resume_file'.present => resume_file'.name = resume_filename
        /\ jd_text_input' = last_jd)
       => NoCallsMade' /\ processed' /\ result' = result]_vars

\* a run with both inputs ready and the error string stored made no call
C1_Witness ==
    /\ InputsReady /\ processed /\ IsApiErrorString(result)
    /\ NoCallsMade /\ <<resume_file.name, jd_text_input>> \in hist.ever

\* C2 as stated: in a run with a file uploaded and a non-blank job description,
\* if the uploaded document is not the one processed before, or the job
\* description differs from the stored text, the run extracts again; without
\* text it leaves the result cleared, with text it analyses and stores the new
\* result.
C2_Reanalysis ==
    [][(/\ resume_file'.present
        /\ Strip(jd_text_input') # <<>>
        /\ resume_file'.doc # hist.processed_doc \/ jd_text_input' # last_jd)
       => /\ calls'.extract
          /\ calls'.extracted = <<>> => ~calls'.analyze /\ result' = <<>>
          /\ calls'.extracted # <<>> =>
                /\ calls'.analyze
                /\ calls'.jd_text = jd_text_input'
                /\ result' = calls'.returned
                /\ hist'.result_for = <<resume_file'.name, jd_text_input'>>]_vars

\* C3: when the service call raises, the helper returns the error string, which
\* is stored; and in every run with a stored error string no score is
\* extracted, no section is parsed or rendered, and the error is shown.
C3_ErrorShown ==
    /\ calls.api_raised => IsApiErrorString(calls.returned) /\ result = calls.returned
    /\ hist.ran /\ IsApiErrorString(result) =>
          /\ ~ui.score_searched
          /\ ~ui.sections_parsed
          /\ ui.expanders = <<>>
          /\ "gemini" \in ui.errors

\* the declared section names
DeclaredSections == {sections_to_extract[i] : i \in 1..Len(sections_to_extract)}

\* C4: for every non-error text, the sections produced by the loop are exactly
\* the declared names, none with blank content.
C4_AllSectionsPresent ==
    ui.sections_parsed =>
        /\ {ui.expanders[k].Section : k \in 1..Len(ui.expanders)} = DeclaredSections
        /\ \A k \in 1..Len(ui.expanders) : ui.expanders[k].Content # <<>>

\* the positions in s where a line starts with a delimiter name
DelimiterLines(s) ==
    {p \in 1..Len(s) :
        /\ p = 1 \/ s[p - 1] = NL
        /\ \E k \in 1..Len(all_delimiters) : StartsWithAtCI(s, p, all_delimiters[k])}

\* C5: the content captured for a section whose header line is found has no
\* line that starts with a delimiter name (a section name or "Overall Match
\* Score"), wherever that line stands in the text.
C5_ContentStopsAtDelimiter ==
    ui.sections_parsed =>
        \A i \in 1..Len(sections_to_extract) :
            LET match == SectionSearch(result, sections_to_extract[i])
            IN  match.found => DelimiterLines(match.group1) = {}

\* C6: on a non-error text, a score line's digits are shown as the integer they
\* spell (0 included); without a score line no score is shown and a warning
\* is; and in both cases the section analysis is displayed.
C6_ScoreAndAnalysis ==
    (hist.ran /\ result # <<>> /\ ~IsApiErrorString(result)) =>
        LET score_match == ScoreSearch(result)
        IN  /\ ui.score_searched
            /\ score_match.found =>
                  ui.score_shown /\ ui.score_int = ParseInt(score_match.group1)
            /\ ~score_match.found =>
                  ~ui.score_shown /\ "score not found" \in ui.warnings
            /\ ui.success /\ ui.sections_parsed

\* C7: a run whose extraction raised or gave no text makes no analysis call and
\* ends with processed=True and an empty result (the helper returns "" when
\* the library raises); the next run with the same inputs does not extract.
C7_ExtractionFailure ==
    /\ []((calls.extract /\ calls.extracted = <<>>) =>
             ~calls.analyze /\ processed /\ result = <<>>)
    /\ []("extraction" \in ui.errors => calls.extract /\ calls.extracted = <<>>)
    /\ [][(/\ calls.extract /\ calls.extracted = <<>>
           /\ resume_file' = resume_file
           /\ jd_text_input' = jd_text_input)
          => ~calls'.extract /\ ~calls'.analyze /\ processed']_vars

\* a run in which the extraction library raised
C7_Witness ==
    /\ InputsReady /\ calls.extract /\ "extraction" \in ui.errors
    /\ processed /\ result = <<>>

\* C8: without the key, or when building the model raises, no run initialises
\* the session state, calls a helper or displays a result; each shows the
\* configuration error.
C8_HaltedStartup ==
    env \in {"no key", "init raises"} =>
        /\ ~ss_ready
        /\ NoCallsMade
        /\ result = <<>> /\ ~processed
        /\ ~ui.success /\ ~ui.score_shown /\ ui.expanders = <<>>
        /\ hist.ran => "configuration" \in ui.errors

\* a run happened when building the model raises
C8_Witness == env = "init raises" /\ hist.ran /\ "configuration" \in ui.errors

\* C9: after every run, a non-empty stored result goes with processed=True and
\* was returned by the analysis call made for the stored resume_filename and
\* last_jd, which are the file name (if a file is uploaded) and the job
\* description the run saw.
C9_ResultMatchesInputs ==
    (hist.ran /\ result # <<>>) =>
        /\ processed
        /\ hist.result_for = <<resume_filename, last_jd>>
        /\ last_jd = jd_text_input
        /\ resume_file.present => resume_file.name = resume_filename

\* a result is stored after the inputs changed from an analysed pair
C9_Witness ==
    /\ result # <<>> /\ ~calls.analyze /\ ~resume_file.present
    /\ Cardinality(hist.ever) >= 2

\* the content the loop captures for the i-th declared section, trimmed
Captured(i) ==
    LET match == SectionSearch(result, sections_to_extract[i])
    IN  IF match.found THEN Strip(match.group1) ELSE <<>>

\* the i-th declared section has real (non-blank, non-placeholder) content
RealContent(i) == Captured(i) # <<>> /\ ~IsPlaceholder(Captured(i))

\* the expanders shown for the i-th declared section
ExpandersOf(i) ==
    {k \in 1..Len(ui.expanders) : ui.expanders[k].Section = sections_to_extract[i]}

\* C10: expanders follow the declared order; a section with real content is
\* shown unless an earlier section has the same content, and is shown
\* expanded; a section with placeholder content is always shown, italicised
\* and collapsed.
C10_DisplayList ==
    ui.sections_parsed =>
        /\ \A k, l \in 1..Len(ui.expanders) :
              k < l => \E i, j \in 1..Len(sections_to_extract) :
                          /\ i < j
                          /\ ui.expanders[k].Section = sections_to_extract[i]
                          /\ ui.expanders[l].Section = sections_to_extract[j]
        /\ \A i \in 1..Len(sections_to_extract) :
              /\ RealContent(i) =>
                    IF \E j \in 1..(i - 1) : Captured(j) = Captured(i)
                    THEN ExpandersOf(i) = {}
                    ELSE \E k \in ExpandersOf(i) :
                            /\ ui.expanders[k].Content = ReplaceNewlines(Captured(i))
                            /\ ui.expanders[k].expanded
              /\ (Captured(i) # <<>> /\ IsPlaceholder(Captured(i))) =>
                    \E k \in ExpandersOf(i) :
                        /\ ui.expanders[k].Content = ItalicOpen \o Captured(i) \o ItalicClose
                        /\ ~ui.expanders[k].expanded
              /\ Captured(i) = <<>> => ExpandersOf(i) = {}

====
